---------------------------- MODULE Spec2Model ----------------------------
(***************************************************************************)
(* State-machine model of the encrypted_poker on-chain program             *)
(* (programs/encrypted-poker/src/lib.rs).                                  *)
(*                                                                         *)
(* One table account, its seated Player accounts, the EncryptedAction,     *)
(* EncryptedHand and GameResult accounts derived from it, and the cluster  *)
(* clock.  Every instruction is one atomic action.  An instruction that    *)
(* returns an error (a failed require!, a failed account constraint, a     *)
(* panic) is rolled back by the runtime and changes no account: it is a    *)
(* step that is not taken.  What an instruction answers in a given state   *)
(* is the value of its *_result operator (the error name, or "Ok").        *)
(***************************************************************************)
EXTENDS Integers, Sequences, FiniteSets, TLC

VARIABLES
    table,              \* the Table account
    players,            \* the Player accounts, players[i].player_id = i - 1
    encrypted_actions,  \* EncryptedAction accounts that exist: <<hand_number, player_id>>
    encrypted_hand,     \* the EncryptedHand account of the callback payer
    game_results,       \* GameResult accounts, by the hand_number of their seed
    now,                \* Clock::get()?.unix_timestamp
    steps               \* steps taken so far (the depth bound of the model)

vars == <<table, players, encrypted_actions, encrypted_hand, game_results,
          now, steps>>

---------------------------------------------------------------------------
(* Program constants                                                       *)

MAX_PLAYERS == 6
STARTING_CHIPS == 2000
TIME_BANK_SECONDS == 30
NOT_REVEALED == 255
U8_MAX == 255

(* Bounds of the model                                                     *)

NumWallets == 3         \* wallets that may ask for a seat
MaxTicks == 2           \* the clock advances at most this many times
TickSeconds == 40       \* seconds per clock advance
WordBits == 16          \* width the model gives the u64 chip arithmetic
MaxSteps == 7           \* instructions and clock advances in a behaviour

(* create_table arguments of the modelled table                            *)
CfgSmallBlind == 10
CfgBigBlind == 20
CfgMinPlayers == 2
CfgMaxPlayers == 2

Wallets == 1..NumWallets
Creator == 1
\* The arcium_mxe account a callback is given: Arcium's, or some other one.
MxeAccounts == {"arcium", "other"}
U64_MOD == 2^WordBits

None == [none |-> TRUE]

---------------------------------------------------------------------------
(* GamePhase                                                               *)

Phases == <<"Waiting", "PreFlop", "Flop", "Turn", "River", "Showdown", "Complete">>

phase_to_u8(phase) ==
    CASE phase = "Waiting"  -> 0
      [] phase = "PreFlop"  -> 1
      [] phase = "Flop"     -> 2
      [] phase = "Turn"     -> 3
      [] phase = "River"    -> 4
      [] phase = "Showdown" -> 5
      [] phase = "Complete" -> 6

---------------------------------------------------------------------------
(* Integer helpers (Rust semantics)                                        *)

Min(a, b) == IF a <= b THEN a ELSE b
saturating_sub(a, b) == IF a >= b THEN a - b ELSE 0
saturating_add_u8(a, b) == Min(a + b, U8_MAX)
\* u64 addition: the wrapped value, and whether it overflowed
wrapping_add(a, b) == (a + b) % U64_MOD
overflows(a, b) == a + b >= U64_MOD

RECURSIVE SumSeq(_)
SumSeq(s) == IF s = <<>> THEN 0 ELSE Head(s) + SumSeq(Tail(s))


---------------------------------------------------------------------------
(* create_table: the state after the table account is created              *)

Init ==
    /\ table = [ creator |-> Creator,
                 small_blind |-> CfgSmallBlind,
                 big_blind |-> CfgBigBlind,
                 min_players |-> CfgMinPlayers,
                 max_players |-> CfgMaxPlayers,
                 current_players |-> 0,
                 phase |-> "Waiting",
                 pot |-> 0,
                 current_bet |-> 0,
                 dealer_seat |-> 0,
                 current_turn |-> 0,
                 hand_number |-> 0,
                 arcium_computation_id |-> 0,
                 encrypted_deck_hash |-> 0,
                 community_cards |-> [i \in 1..5 |-> NOT_REVEALED],
                 main_pot |-> 0,
                 side_pots |-> [i \in 1..MAX_PLAYERS |-> 0],
                 side_pot_count |-> 0,
                 last_action_ts |-> 0,
                 players_acted |-> 0,
                 players_to_act |-> 0 ]
    /\ players = <<>>
    /\ encrypted_actions = {}
    /\ encrypted_hand = None
    /\ game_results = <<>>
    /\ now = 0
    /\ steps = 0

---------------------------------------------------------------------------
(* The cluster clock                                                       *)

\* Every step counts against the depth bound.
Count == steps < MaxSteps /\ steps' = steps + 1

Tick ==
    /\ Count
    /\ now < MaxTicks * TickSeconds
    /\ now' = now + TickSeconds
    /\ UNCHANGED <<table, players, encrypted_actions, encrypted_hand,
                   game_results>>

---------------------------------------------------------------------------
(* join_table                                                              *)

\* JoinTable accounts: the player account is created (init) at the address
\* seeded by the table and the payer.
PlayerAccountFree(ps, w) == \A i \in 1..Len(ps) : ps[i].wallet # w

NewPlayer(t, w, seat_index) ==
    [ player_id |-> t.current_players,
      wallet |-> w,
      seat_index |-> seat_index,
      chip_count |-> STARTING_CHIPS,
      current_bet |-> 0,
      total_contributed |-> 0,
      is_active |-> TRUE,
      is_all_in |-> FALSE,
      has_acted |-> FALSE,
      time_bank_remaining |-> TIME_BANK_SECONDS ]

join_table_result(t, ps, w, seat_index) ==
    IF ~PlayerAccountFree(ps, w) THEN "AccountInUse"
    ELSE IF t.phase # "Waiting" THEN "GameAlreadyStarted"
    ELSE IF ~(t.current_players < MAX_PLAYERS) THEN "TableFull"
    ELSE IF ~(seat_index < t.max_players) THEN "InvalidSeat"
    ELSE "Ok"

SeatInputs == {0, CfgMaxPlayers}

\* Wallets are interchangeable; they ask for a seat in the order 1, 2, ...
NextWallet(ps) == {Len(ps) + 1} \cap Wallets

join_table ==
    \E w \in NextWallet(players), seat_index \in SeatInputs :
        /\ Count
        /\ join_table_result(table, players, w, seat_index) = "Ok"
        /\ players' = Append(players, NewPlayer(table, w, seat_index))
        /\ table' = [table EXCEPT !.current_players = @ + 1]
        /\ UNCHANGED <<encrypted_actions, encrypted_hand, game_results, now>>

---------------------------------------------------------------------------
(* start_game                                                              *)

\* start_game without the minimum-players requirement.
start_game_result_AnyCount(t, signer) ==
    IF signer # t.creator THEN "ConstraintHasOne"
    ELSE IF t.phase # "Waiting" THEN "GameAlreadyStarted"
    ELSE "Ok"

start_game_result(t, signer) ==
    IF signer # t.creator THEN "ConstraintHasOne"
    ELSE IF t.phase # "Waiting" THEN "GameAlreadyStarted"
    ELSE IF ~(t.current_players >= t.min_players) THEN "NotEnoughPlayers"
    ELSE "Ok"

start_game_apply(t, ts) ==
    [t EXCEPT !.hand_number = @ + 1,
              !.phase = "PreFlop",
              !.last_action_ts = ts]

start_game ==
    \E signer \in Wallets :
        /\ Count
        /\ start_game_result(table, signer) = "Ok"
        /\ table' = start_game_apply(table, now)
        /\ UNCHANGED <<players, encrypted_actions, encrypted_hand,
                       game_results, now>>

---------------------------------------------------------------------------
(* Helper functions                                                        *)

post_blinds(t) == [t EXCEPT !.current_bet = t.big_blind]

\* Betting is complete when the acted counter has reached the to-act counter.
is_betting_complete(t) == t.players_acted >= t.players_to_act

reset_betting_state(t) ==
    [t EXCEPT !.current_bet = 0,
              !.players_acted = 0,
              !.players_to_act = t.current_players]

\* Simple round-robin over the seated players.
advance_turn(t) ==
    [t EXCEPT !.current_turn = (t.current_turn + 1) % t.current_players]

dec_players_to_act(t) ==
    IF t.players_to_act > 0 THEN [t EXCEPT !.players_to_act = @ - 1] ELSE t

---------------------------------------------------------------------------
(* submit_action: the match arms.  Each yields the outcome and the table   *)
(* and player as the arm leaves them.                                      *)

Applied(res, t, p) == [result |-> res, t |-> t, p |-> p]

ApplyFold(t, p) ==
    Applied("Ok",
            dec_players_to_act(t),
            [p EXCEPT !.is_active = FALSE, !.has_acted = TRUE])

\* ApplyCheck without the bets-match requirement.
ApplyCheck_Unchecked(t, p) ==
    Applied("Ok",
            [t EXCEPT !.players_acted = saturating_add_u8(@, 1)],
            [p EXCEPT !.has_acted = TRUE])

ApplyCheck(t, p) ==
    IF t.current_bet # p.current_bet THEN Applied("MustCallOrFold", t, p)
    ELSE Applied("Ok",
                 [t EXCEPT !.players_acted = saturating_add_u8(@, 1)],
                 [p EXCEPT !.has_acted = TRUE])

\* ApplyCall with the total_contributed update left out.
ApplyCall_PotOnly(t, p, oc) ==
    LET call_amount == saturating_sub(t.current_bet, p.current_bet)
        actual_call == Min(call_amount, p.chip_count)
        p1 == [p EXCEPT !.chip_count = @ - actual_call,
                        !.current_bet = wrapping_add(@, actual_call),
                        !.has_acted = TRUE]
        t1 == [t EXCEPT !.pot = wrapping_add(@, actual_call)]
    IN  IF p1.chip_count = 0
        THEN Applied("Ok", dec_players_to_act(t1), [p1 EXCEPT !.is_all_in = TRUE])
        ELSE Applied("Ok",
                     [t1 EXCEPT !.players_acted = saturating_add_u8(@, 1)],
                     p1)

ApplyCall(t, p, oc) ==
    LET call_amount == saturating_sub(t.current_bet, p.current_bet)
        actual_call == Min(call_amount, p.chip_count)
        p1 == [p EXCEPT !.chip_count = @ - actual_call,
                        !.current_bet = wrapping_add(@, actual_call),
                        !.total_contributed = wrapping_add(@, actual_call),
                        !.has_acted = TRUE]
        t1 == [t EXCEPT !.pot = wrapping_add(@, actual_call)]
    IN  IF oc /\ ( \/ overflows(p.current_bet, actual_call)
                   \/ overflows(p.total_contributed, actual_call)
                   \/ overflows(t.pot, actual_call) )
        THEN Applied("Panic", t, p)
        ELSE IF p1.chip_count = 0
        THEN Applied("Ok", dec_players_to_act(t1), [p1 EXCEPT !.is_all_in = TRUE])
        ELSE Applied("Ok",
                     [t1 EXCEPT !.players_acted = saturating_add_u8(@, 1)],
                     p1)

\* ApplyRaise without the chip requirement.
ApplyRaise_NoChipCheck(t, p, raise_amount, oc) ==
    LET call_amount == saturating_sub(t.current_bet, p.current_bet)
        total == wrapping_add(call_amount, raise_amount)
        new_bet == wrapping_add(t.current_bet, raise_amount)
        p1 == [p EXCEPT !.chip_count = @ - total,
                        !.current_bet = new_bet,
                        !.total_contributed = wrapping_add(@, total),
                        !.has_acted = TRUE]
        t1 == [t EXCEPT !.pot = wrapping_add(@, total),
                        !.current_bet = new_bet,
                        !.players_acted = 1]
    IN  IF oc /\ overflows(call_amount, raise_amount) THEN Applied("Panic", t, p)
        ELSE IF ~(raise_amount >= t.big_blind) THEN Applied("RaiseTooSmall", t, p)
        ELSE IF oc /\ ( \/ overflows(t.current_bet, raise_amount)
                        \/ overflows(p.total_contributed, total)
                        \/ overflows(t.pot, total) )
        THEN Applied("Panic", t, p)
        ELSE Applied("Ok", t1, p1)

\* ApplyRaise without the minimum-raise requirement.
ApplyRaise_NoMinimum(t, p, raise_amount, oc) ==
    LET call_amount == saturating_sub(t.current_bet, p.current_bet)
        total == wrapping_add(call_amount, raise_amount)
        new_bet == wrapping_add(t.current_bet, raise_amount)
        p1 == [p EXCEPT !.chip_count = @ - total,
                        !.current_bet = new_bet,
                        !.total_contributed = wrapping_add(@, total),
                        !.has_acted = TRUE]
        t1 == [t EXCEPT !.pot = wrapping_add(@, total),
                        !.current_bet = new_bet,
                        !.players_acted = 1]
    IN  IF oc /\ overflows(call_amount, raise_amount) THEN Applied("Panic", t, p)
        ELSE IF ~(p.chip_count >= total) THEN Applied("InsufficientChips", t, p)
        ELSE IF oc /\ ( \/ overflows(t.current_bet, raise_amount)
                        \/ overflows(p.total_contributed, total)
                        \/ overflows(t.pot, total) )
        THEN Applied("Panic", t, p)
        ELSE Applied("Ok", t1, p1)

ApplyRaise(t, p, raise_amount, oc) ==
    LET call_amount == saturating_sub(t.current_bet, p.current_bet)
        total == wrapping_add(call_amount, raise_amount)
        new_bet == wrapping_add(t.current_bet, raise_amount)
        p1 == [p EXCEPT !.chip_count = @ - total,
                        !.current_bet = new_bet,
                        !.total_contributed = wrapping_add(@, total),
                        !.has_acted = TRUE]
        t1 == [t EXCEPT !.pot = wrapping_add(@, total),
                        !.current_bet = new_bet,
                        !.players_acted = 1]
    IN  IF oc /\ overflows(call_amount, raise_amount) THEN Applied("Panic", t, p)
        ELSE IF ~(p.chip_count >= total) THEN Applied("InsufficientChips", t, p)
        ELSE IF ~(raise_amount >= t.big_blind) THEN Applied("RaiseTooSmall", t, p)
        ELSE IF oc /\ ( \/ overflows(t.current_bet, raise_amount)
                        \/ overflows(p.total_contributed, total)
                        \/ overflows(t.pot, total) )
        THEN Applied("Panic", t, p)
        ELSE Applied("Ok", t1, p1)

ApplyAllIn(t, p, oc) ==
    LET all_in == p.chip_count
        p1 == [p EXCEPT !.chip_count = 0,
                        !.current_bet = wrapping_add(@, all_in),
                        !.total_contributed = wrapping_add(@, all_in),
                        !.is_all_in = TRUE,
                        !.has_acted = TRUE]
        t1 == [t EXCEPT !.pot = wrapping_add(@, all_in)]
    IN  IF oc /\ ( \/ overflows(p.current_bet, all_in)
                   \/ overflows(p.total_contributed, all_in)
                   \/ overflows(t.pot, all_in) )
        THEN Applied("Panic", t, p)
        ELSE IF p1.current_bet > t1.current_bet
        THEN Applied("Ok",
                     [t1 EXCEPT !.current_bet = p1.current_bet,
                                !.players_acted = 1],
                     p1)
        ELSE Applied("Ok", dec_players_to_act(t1), p1)

ApplyAction(t, p, action_type, raise_amount, oc) ==
    CASE action_type = 0 -> ApplyFold(t, p)
      [] action_type = 1 -> ApplyCheck(t, p)
      [] action_type = 2 -> ApplyCall(t, p, oc)
      [] action_type = 3 -> ApplyRaise(t, p, raise_amount, oc)
      [] action_type = 4 -> ApplyAllIn(t, p, oc)
      [] OTHER -> Applied("InvalidAction", t, p)

\* submit_action without the time bank requirement.
TimeBankExpired_Never(t, p, ts) == FALSE

\* The time bank check and update that precede the match.
TimeBankExpired(t, p, ts) ==
    ~((ts - t.last_action_ts) <= TIME_BANK_SECONDS + p.time_bank_remaining)

UpdateTimeBank(t, p, ts) ==
    LET elapsed == ts - t.last_action_ts IN
    IF elapsed > TIME_BANK_SECONDS
    THEN [p EXCEPT !.time_bank_remaining = @ - (elapsed - TIME_BANK_SECONDS)]
    ELSE p

\* SubmitAction accounts: encrypted_action is created (init) at the address
\* seeded by the table, its hand_number and the player's player_id.
ActionSeed(t, p) == <<t.hand_number, p.player_id>>

ActionAccountFree(t, p, actions) == ActionSeed(t, p) \notin actions

\* submit_action without the requirement that the seat holds the turn.
submit_action_step_AnyTurn(t, p, payer, action_type, raise_amount, ts, oc, actions) ==
    IF ~ActionAccountFree(t, p, actions) THEN Applied("AccountInUse", t, p)
    ELSE IF ~p.is_active THEN Applied("PlayerInactive", t, p)
    ELSE IF p.wallet # payer THEN Applied("NotYourTurn", t, p)
    ELSE IF TimeBankExpired(t, p, ts) THEN Applied("TimeExpired", t, p)
    ELSE LET a == ApplyAction(t, UpdateTimeBank(t, p, ts),
                              action_type, raise_amount, oc)
         IN  IF a.result # "Ok" THEN Applied(a.result, t, p)
             ELSE Applied("Ok",
                          advance_turn([a.t EXCEPT !.last_action_ts = ts]),
                          a.p)

\* The whole instruction on (table, player account), signed by payer at time ts.
submit_action_step(t, p, payer, action_type, raise_amount, ts, oc, actions) ==
    IF ~ActionAccountFree(t, p, actions) THEN Applied("AccountInUse", t, p)
    ELSE IF ~p.is_active THEN Applied("PlayerInactive", t, p)
    ELSE IF p.wallet # payer THEN Applied("NotYourTurn", t, p)
    ELSE IF t.current_turn # p.player_id THEN Applied("NotYourTurn", t, p)
    ELSE IF TimeBankExpired(t, p, ts) THEN Applied("TimeExpired", t, p)
    ELSE LET a == ApplyAction(t, UpdateTimeBank(t, p, ts),
                              action_type, raise_amount, oc)
         IN  IF a.result # "Ok" THEN Applied(a.result, t, p)
             ELSE Applied("Ok",
                          advance_turn([a.t EXCEPT !.last_action_ts = ts]),
                          a.p)

\* Instruction arguments <<action_type, raise_amount, build profile>>.
\* raise_amount is read by Raise alone, and Raise alone can overflow; 5 is an
\* action_type no arm matches.  The sources do not fix the build profile:
\* u64 overflow either panics (overflow-checks on, TRUE) or wraps (FALSE).
RaiseAmounts == {CfgSmallBlind, CfgBigBlind, U64_MOD - CfgBigBlind}
ActionInputs ==
    {<<a, 0, TRUE>> : a \in {0, 1, 2, 4, 5}}
        \cup {<<3, r, oc>> : r \in RaiseAmounts, oc \in BOOLEAN}

submit_action ==
    \E i \in 1..Len(players), payer \in Wallets, a \in ActionInputs :
        LET s == submit_action_step(table, players[i], payer, a[1], a[2],
                                    now, a[3], encrypted_actions)
        IN  /\ Count
            /\ s.result = "Ok"
            /\ table' = s.t
            /\ players' = [players EXCEPT ![i] = s.p]
            /\ encrypted_actions' =
                   encrypted_actions \cup {ActionSeed(table, players[i])}
            /\ UNCHANGED <<encrypted_hand, game_results, now>>

---------------------------------------------------------------------------
(* deal_community_cards and trigger_showdown                               *)

NextStreet(phase) ==
    CASE phase = "PreFlop" -> "Flop"
      [] phase = "Flop"    -> "Turn"
      [] phase = "Turn"    -> "River"
      [] phase = "River"   -> "Showdown"
      [] OTHER             -> "InvalidPhase"

deal_community_cards_result(t) ==
    IF ~is_betting_complete(t) THEN "BettingNotComplete"
    ELSE IF NextStreet(t.phase) = "InvalidPhase" THEN "InvalidPhase"
    ELSE "Ok"

deal_community_cards_apply(t) ==
    reset_betting_state([t EXCEPT !.phase = NextStreet(t.phase)])

deal_community_cards ==
    /\ Count
    /\ deal_community_cards_result(table) = "Ok"
    /\ table' = deal_community_cards_apply(table)
    /\ UNCHANGED <<players, encrypted_actions, encrypted_hand, game_results, now>>

trigger_showdown_result(t) ==
    IF t.phase # "River" THEN "InvalidPhase"
    ELSE IF ~is_betting_complete(t) THEN "BettingNotComplete"
    ELSE "Ok"

trigger_showdown_apply(t) == [t EXCEPT !.phase = "Showdown"]

\* Not a disjunct of Next: the instruction is never accepted.  It needs the
\* River phase, and no table gets past Turn: a street closes only after every
\* seated player has acted on it (reset_betting_state counts them all), and
\* the EncryptedAction seeds give each player one action per hand.
trigger_showdown ==
    /\ Count
    /\ trigger_showdown_result(table) = "Ok"
    /\ table' = trigger_showdown_apply(table)
    /\ UNCHANGED <<players, encrypted_actions, encrypted_hand, game_results, now>>

---------------------------------------------------------------------------
(* The callbacks                                                           *)

\* The check that a callback comes from Arcium's program.
verify_arcium_callback(mxe) == "Ok"

DeckCommitments == {<<1, 11>>, <<2, 22>>}   \* <<computation_id, deck hash>>

on_deck_ready_apply(t, computation_id, encrypted_deck_hash) ==
    post_blinds([t EXCEPT !.encrypted_deck_hash = encrypted_deck_hash,
                          !.arcium_computation_id = computation_id])

on_deck_ready ==
    \E mxe \in MxeAccounts, d \in DeckCommitments :
        /\ Count
        /\ verify_arcium_callback(mxe) = "Ok"
        /\ table' = on_deck_ready_apply(table, d[1], d[2])
        /\ UNCHANGED <<players, encrypted_actions, encrypted_hand,
                       game_results, now>>

\* on_cards_dealt writes the EncryptedHand account seeded by the table and
\* the payer (init_if_needed): the player key and commitment it is given,
\* and the table's hand_number.  One payer relays the callbacks, so there is
\* one such account; the card ciphertexts are opaque and left out.
HandInputs == {[player |-> 1, arcium_commitment |-> 101]}

on_cards_dealt_apply(t, h) ==
    [ player |-> h.player,
      hand_number |-> t.hand_number,
      arcium_commitment |-> h.arcium_commitment ]

on_cards_dealt ==
    \E mxe \in MxeAccounts, h \in HandInputs :
        /\ Count
        /\ verify_arcium_callback(mxe) = "Ok"
        /\ encrypted_hand' = on_cards_dealt_apply(table, h)
        /\ UNCHANGED <<table, players, encrypted_actions, game_results, now>>

\* on_community_cards: the zip of card_indices and card_values is written
\* slot by slot; an index >= 5 fails the instruction as a whole.
RevealInputs ==
    { [card_indices |-> <<0>>,    card_values |-> <<7>>],
      [card_indices |-> <<0, 1>>, card_values |-> <<8>>],
      [card_indices |-> <<0, 5>>, card_values |-> <<9, 9>>] }

ZipLen(r) == Min(Len(r.card_indices), Len(r.card_values))

on_community_cards_result(mxe, r) ==
    IF verify_arcium_callback(mxe) # "Ok" THEN verify_arcium_callback(mxe)
    ELSE IF \E k \in 1..ZipLen(r) : ~(r.card_indices[k] < 5) THEN "InvalidCard"
    ELSE "Ok"

RECURSIVE WriteCards(_, _, _)
WriteCards(cards, r, k) ==
    IF k > ZipLen(r) THEN cards
    ELSE WriteCards([cards EXCEPT ![r.card_indices[k] + 1] = r.card_values[k]],
                    r, k + 1)

on_community_cards_apply(t, r) ==
    [t EXCEPT !.community_cards = WriteCards(t.community_cards, r, 1)]

on_community_cards ==
    \E mxe \in MxeAccounts, r \in RevealInputs :
        /\ Count
        /\ on_community_cards_result(mxe, r) = "Ok"
        /\ table' = on_community_cards_apply(table, r)
        /\ UNCHANGED <<players, encrypted_actions, encrypted_hand,
                       game_results, now>>

---------------------------------------------------------------------------
(* on_showdown_result                                                      *)

\* The account constraint as init_if_needed: an existing account is reused.
ResultAccountFree_IfNeeded(t, results) == TRUE

\* ShowdownResult accounts: game_result is created (init) at the address
\* seeded by the table and its hand_number.
ResultAccountFree(t, results) == t.hand_number \notin DOMAIN results

Pad6(s) == [i \in 1..MAX_PLAYERS |-> IF i <= Len(s) THEN s[i] ELSE 0]

\* The instruction's arguments: winners (player ids), winner_count, payouts.
\* The category, proof and proof hash are opaque bytes it copies; left out.
ShowdownInputs ==
    { [winners |-> Pad6(<<0>>),    winner_count |-> 1, payouts |-> Pad6(<<20>>)],
      [winners |-> Pad6(<<1, 0>>), winner_count |-> 2, payouts |-> Pad6(<<2000, 20>>)],
      [winners |-> Pad6(<<0>>),    winner_count |-> 7, payouts |-> Pad6(<<20>>)] }

\* remaining_accounts: the Player accounts the caller passes, in order.
RemainingInputs(ps) == {ps}

\* The wallet of the first passed Player account whose player_id matches;
\* Pubkey::default() (0) when none does.
RECURSIVE ResolveWinner(_, _)
ResolveWinner(remaining, pid) ==
    IF remaining = <<>> THEN 0
    ELSE IF Head(remaining).player_id = pid THEN Head(remaining).wallet
    ELSE ResolveWinner(Tail(remaining), pid)

on_showdown_result_result(t, results, mxe, inp) ==
    IF ~ResultAccountFree(t, results) THEN "AccountInUse"
    ELSE IF verify_arcium_callback(mxe) # "Ok" THEN verify_arcium_callback(mxe)
    ELSE IF inp.winner_count > MAX_PLAYERS THEN "Panic"
    ELSE "Ok"

NewGameResult(t, inp, remaining, ts) ==
    [ hand_number |-> t.hand_number,
      winner_count |-> inp.winner_count,
      community_cards |-> t.community_cards,
      timestamp |-> ts,
      participants |->
          [i \in 1..MAX_PLAYERS |->
              IF i <= Len(remaining) THEN remaining[i].wallet ELSE 0],
      participant_count |-> Min(Len(remaining), MAX_PLAYERS),
      payouts |->
          [i \in 1..MAX_PLAYERS |->
              IF i <= inp.winner_count THEN inp.payouts[i] ELSE 0],
      winners |->
          [i \in 1..MAX_PLAYERS |->
              IF i <= inp.winner_count
              THEN ResolveWinner(remaining, inp.winners[i]) ELSE 0] ]

\* The account at the seed of rec.hand_number now holds rec.
StoreResult(results, rec) ==
    [h \in DOMAIN results \cup {rec.hand_number} |->
        IF h = rec.hand_number THEN rec ELSE results[h]]

\* on_showdown_result reopening the table for the next hand.
on_showdown_result_table_Reopen(t) == [t EXCEPT !.phase = "Waiting"]

on_showdown_result_table(t) == [t EXCEPT !.phase = "Complete"]

\* What the instruction does to the Player accounts.
on_showdown_result_players(ps, inp) == ps

on_showdown_result ==
    \E mxe \in MxeAccounts, inp \in ShowdownInputs,
       remaining \in RemainingInputs(players) :
        /\ Count
        /\ on_showdown_result_result(table, game_results, mxe, inp) = "Ok"
        /\ game_results' =
               StoreResult(game_results, NewGameResult(table, inp, remaining, now))
        /\ table' = on_showdown_result_table(table)
        /\ players' = on_showdown_result_players(players, inp)
        /\ UNCHANGED <<encrypted_actions, encrypted_hand, now>>

---------------------------------------------------------------------------

Next ==
    \/ Tick
    \/ join_table
    \/ start_game
    \/ on_deck_ready
    \/ on_cards_dealt
    \/ submit_action
    \/ deal_community_cards
    \/ on_community_cards
    \/ on_showdown_result

Spec == Init /\ [][Next]_vars

---------------------------------------------------------------------------
(* Properties                                                              *)

Seated == 1..Len(players)
BettingPhases == {"PreFlop", "Flop", "Turn", "River"}

SumContributed == SumSeq([i \in Seated |-> players[i].total_contributed])

\* A seat that still has to be asked: not folded, not all-in.
CanAct(p) == p.is_active /\ ~p.is_all_in

\* C1: after any sequence of accepted submit_action calls, table.pot equals
\* the sum of total_contributed over the seated players.
C1_PotIsSumOfContributions == table.pot = SumContributed

\* Two seats have put chips in with actions of the running hand.
C1_Witness ==
    /\ table.phase \in BettingPhases
    /\ Cardinality({a \in encrypted_actions : a[1] = table.hand_number}) >= 2
    /\ Cardinality({i \in Seated : players[i].total_contributed > 0}) >= 2
    /\ table.pot >= 3 * CfgBigBlind

\* C2: every change of table.phase moves to the immediate successor in
\* Waiting, PreFlop, Flop, Turn, River, Showdown, Complete.
C2_NoPhaseSkipped ==
    [][table'.phase # table.phase =>
           phase_to_u8(table'.phase) = phase_to_u8(table.phase) + 1]_vars

\* C3: a showdown result is accepted only in the Showdown phase; in any other
\* phase none is recorded and the phase does not become Complete.
C3_ResultOnlyInShowdown ==
    [][(\/ game_results' # game_results
        \/ (table'.phase = "Complete" /\ table.phase # "Complete"))
           => table.phase = "Showdown"]_vars

\* C4: at most one showdown result is accepted per hand_number: once a
\* GameResult is recorded for a hand, on_showdown_result for that hand is
\* rejected whatever its arguments, and no step changes the recorded result.
C4_OneResultPerHand ==
    [][/\ \A h \in DOMAIN game_results :
              h \in DOMAIN game_results' /\ game_results'[h] = game_results[h]
       /\ table.hand_number \in DOMAIN game_results =>
              \A mxe \in MxeAccounts, inp \in ShowdownInputs :
                  on_showdown_result_result(table, game_results, mxe, inp) # "Ok"
      ]_vars

\* The result of the started hand was recorded at an earlier time and is
\* still there.
C4_Witness ==
    /\ table.hand_number = 1
    /\ table.hand_number \in DOMAIN game_results
    /\ game_results[table.hand_number].timestamp < now

\* C5: when a showdown result is accepted for a started hand, the sum of the
\* recorded payouts is at most table.pot.
C5_PayoutsWithinPot ==
    [][(table.hand_number >= 1 /\ game_results' # game_results) =>
           SumSeq(game_results'[table.hand_number].payouts) <= table.pot]_vars

\* C6: when a showdown result is accepted for a started hand, with payouts
\* the pot covers, each winner's chip_count goes up by that winner's payout
\* and the phase is Complete.
C6_PayoutsCredited ==
    [][( /\ table.hand_number >= 1
         /\ game_results' # game_results
         /\ SumSeq(game_results'[table.hand_number].payouts) <= table.pot ) =>
           LET g == game_results'[table.hand_number] IN
           /\ table'.phase = "Complete"
           /\ \A k \in 1..g.winner_count : \A i \in Seated :
                  players[i].wallet = g.winners[k] =>
                      players'[i].chip_count =
                          players[i].chip_count + g.payouts[k]]_vars

\* current_turn names a seat that can act, if any seat can.
TurnSeatCanAct(t, ps) ==
    (\E i \in 1..Len(ps) : CanAct(ps[i])) =>
        \E i \in 1..Len(ps) : ps[i].player_id = t.current_turn /\ CanAct(ps[i])

\* C7: after every accepted action of a hand, current_turn does not name a
\* folded or all-in seat while some active, non-all-in seat exists.
C7_TurnSkipsFoldedAndAllIn ==
    [][(table.phase \in BettingPhases /\ encrypted_actions' # encrypted_actions)
           => TurnSeatCanAct(table', players')]_vars

\* Every active, non-all-in player has acted and matched table.current_bet.
RoundClosed(t, ps) ==
    \A i \in 1..Len(ps) :
        CanAct(ps[i]) => ps[i].has_acted /\ ps[i].current_bet = t.current_bet

\* C8: a street advance or a showdown trigger succeeds only when the betting
\* round is closed.
C8_AdvanceOnlyWhenRoundClosed ==
    [][(table.phase \in BettingPhases /\ table'.phase = NextStreet(table.phase))
           => RoundClosed(table, players)]_vars

MaxOf(S) == IF S = {} THEN 0 ELSE CHOOSE m \in S : \A x \in S : x <= m

\* C9: in every state of a hand, table.current_bet is the maximum of
\* current_bet over the active players.
C9_CurrentBetIsMaxBet ==
    table.phase \in BettingPhases =>
        table.current_bet =
            MaxOf({players[i].current_bet : i \in {j \in Seated : players[j].is_active}})

\* C10: recording an action never gates one: in a hand, an active seat whose
\* turn it is and whose time has not run out can fold, also when an action
\* of that seat is already recorded for the hand.
C10_RecordingNeverGates ==
    \A i \in Seated :
        LET p == players[i] IN
        ( /\ table.phase \in BettingPhases
          /\ p.is_active
          /\ table.current_turn = p.player_id
          /\ ~TimeBankExpired(table, p, now)
          /\ ActionSeed(table, p) \in encrypted_actions )
        => submit_action_step(table, p, p.wallet, 0, 0, now, TRUE,
                              encrypted_actions).result = "Ok"

\* C11: a community-card reveal never touches a slot that already holds a
\* revealed card: a slot whose value is not the 255 sentinel keeps its value.
C11_RevealedSlotKept ==
    [][\A k \in 1..5 :
           table.community_cards[k] # NOT_REVEALED
               => table'.community_cards[k] = table.community_cards[k]]_vars

\* The checks of submit_action that precede the match on action_type pass
\* for seat i signed by payer.
PassesPreconditions(i, payer) ==
    LET p == players[i] IN
    /\ ActionAccountFree(table, p, encrypted_actions)
    /\ p.is_active
    /\ p.wallet = payer
    /\ table.current_turn = p.player_id
    /\ ~TimeBankExpired(table, p, now)

\* C12: a Check submitted while table.current_bet differs from the player's
\* current_bet is rejected, with MustCallOrFold when the preceding checks
\* pass, and the table and the player (time_bank_remaining, last_action_ts
\* and current_turn included) are left as they were.
C12_CheckRejected ==
    \A i \in Seated, payer \in Wallets :
        LET p == players[i]
            s == submit_action_step(table, p, payer, 1, 0, now, TRUE,
                                    encrypted_actions)
        IN  table.current_bet # p.current_bet
            => /\ s.result # "Ok"
               /\ s.t = table
               /\ s.p = p
               /\ PassesPreconditions(i, payer) => s.result = "MustCallOrFold"

\* A seat that passes the preceding checks, has drawn on its time bank, and
\* faces a bet it has not matched: its Check is the rejected one.
C12_Witness ==
    \E i \in Seated :
        /\ table.phase = "PreFlop"
        /\ PassesPreconditions(i, players[i].wallet)
        /\ now - table.last_action_ts > TIME_BANK_SECONDS
        /\ table.current_bet # players[i].current_bet
        /\ submit_action_step(table, players[i], players[i].wallet, 1, 0, now,
                              TRUE, encrypted_actions).result = "MustCallOrFold"

\* C13: a Raise whose raise_amount is below the big blind is rejected, with
\* RaiseTooSmall when the preceding checks pass and the chips cover it, and
\* chip_count, current_bet, total_contributed, pot, players_acted and
\* current_turn are left as they were.
C13_SmallRaiseRejected ==
    \A i \in Seated, payer \in Wallets, r \in RaiseAmounts, oc \in BOOLEAN :
        LET p == players[i]
            s == submit_action_step(table, p, payer, 3, r, now, oc,
                                    encrypted_actions)
            call_amount == saturating_sub(table.current_bet, p.current_bet)
        IN  r < table.big_blind
            => /\ s.result # "Ok"
               /\ s.t = table
               /\ s.p = p
               /\ ( /\ PassesPreconditions(i, payer)
                    /\ p.chip_count >= call_amount + r )
                  => s.result = "RaiseTooSmall"

\* In a hand, after chips have gone into the pot, the seat to act can afford
\* a raise of the small blind: that raise is the rejected one.
C13_Witness ==
    \E i \in Seated :
        /\ table.phase = "PreFlop"
        /\ table.pot > 0
        /\ PassesPreconditions(i, players[i].wallet)
        /\ CfgSmallBlind < table.big_blind
        /\ submit_action_step(table, players[i], players[i].wallet, 3,
                              CfgSmallBlind, now, TRUE,
                              encrypted_actions).result = "RaiseTooSmall"

\* C14: chip_count never goes below zero and never wraps: every chip_count
\* lies between 0 and the starting chips, and no step debits a seat by more
\* than the chip_count it had (chip_count only goes down, and not below 0),
\* also when call amount + raise amount wraps in the unsigned arithmetic.
C14_ChipCountInRange ==
    /\ [](\A i \in Seated : players[i].chip_count \in 0..STARTING_CHIPS)
    /\ [][\A i \in Seated :
              /\ players'[i].chip_count <= players[i].chip_count
              /\ players[i].chip_count - players'[i].chip_count
                     <= players[i].chip_count]_vars

\* A raise whose call amount + raise amount wrapped has been accepted and
\* has debited the raiser: with no blinds posted, another seat's bet exceeds
\* table.current_bet, which the raiser set to its own bet.
C14_Witness ==
    /\ table.phase = "PreFlop"
    /\ table.encrypted_deck_hash = 0
    /\ \E i, j \in Seated :
           /\ i # j
           /\ players[i].current_bet > table.current_bet
           /\ players[j].has_acted
           /\ players[j].current_bet = table.current_bet
           /\ players[j].chip_count < STARTING_CHIPS
           /\ table.players_acted = 1

\* C15: submit_action is accepted only during a betting phase: a step that
\* records an action starts in PreFlop, Flop, Turn or River.
C15_ActionOnlyInBettingPhase ==
    [][encrypted_actions' # encrypted_actions
           => table.phase \in BettingPhases]_vars

\* C16: submit_action by a folded seat, or by a seat whose player_id is not
\* table.current_turn, is rejected (PlayerInactive / NotYourTurn once the
\* action account can be created) and leaves table and player as they were;
\* so a step that records an action or changes a Player account is made by
\* the active seat that holds the turn.
C16_OnlyTurnSeatActs ==
    /\ [](\A i \in Seated, payer \in Wallets, a \in ActionInputs :
              LET p == players[i]
                  s == submit_action_step(table, p, payer, a[1], a[2], now,
                                          a[3], encrypted_actions)
              IN  (~p.is_active \/ table.current_turn # p.player_id)
                  => /\ s.result # "Ok"
                     /\ s.t = table
                     /\ s.p = p
                     /\ ActionAccountFree(table, p, encrypted_actions)
                        => s.result = IF ~p.is_active THEN "PlayerInactive"
                                      ELSE "NotYourTurn")
    /\ [][\A i \in Seated :
              ( \/ players'[i] # players[i]
                \/ ActionSeed(table, players[i])
                       \in encrypted_actions' \ encrypted_actions )
              => /\ players[i].is_active
                 /\ table.current_turn = players[i].player_id]_vars

\* In a hand: a folded seat and an active seat that does not hold the turn,
\* neither with an action recorded for the hand, so that their submit_action
\* reaches the handler's own checks.
C16_Witness ==
    /\ table.phase \in BettingPhases
    /\ \E i, k \in Seated :
           /\ ~players[i].is_active
           /\ ActionAccountFree(table, players[i], encrypted_actions)
           /\ players[k].is_active
           /\ table.current_turn # players[k].player_id
           /\ ActionAccountFree(table, players[k], encrypted_actions)
           /\ ~TimeBankExpired(table, players[k], now)

\* C17: when the deck of a freshly started hand becomes ready and the blinds
\* are posted, table.current_bet is the big blind, table.pot is small blind
\* + big blind, and the seats have contributed those chips.
C17_BlindsPosted ==
    [][( /\ table.phase = "PreFlop"
         /\ table.encrypted_deck_hash = 0
         /\ table.pot = 0
         /\ table'.encrypted_deck_hash # 0 )
       => /\ table'.current_bet = table.big_blind
          /\ table'.pot = table.small_blind + table.big_blind
          /\ SumContributed' = table.small_blind + table.big_blind]_vars

\* The MXE account handed to a callback is owned by Arcium's program.
ArciumOwned(mxe) == mxe = "arcium"

\* C18: every callback entry point (on_deck_ready, on_cards_dealt,
\* on_community_cards, on_showdown_result) invoked with an MXE account that
\* is not Arcium's fails with UnauthorizedCallback.
C18_UnauthorizedCallbackFails ==
    \A mxe \in MxeAccounts :
        ~ArciumOwned(mxe)
        => /\ verify_arcium_callback(mxe) = "UnauthorizedCallback"
           /\ \A r \in RevealInputs :
                  on_community_cards_result(mxe, r) = "UnauthorizedCallback"
           /\ \A inp \in ShowdownInputs :
                  on_showdown_result_result(table, game_results, mxe, inp)
                      = "UnauthorizedCallback"

\* C19: the phase never moves backward: no step lowers the position of
\* table.phase in Waiting, PreFlop, Flop, Turn, River, Showdown, Complete,
\* and once the phase is Complete no step changes it.
C19_PhaseMonotone ==
    [][ /\ phase_to_u8(table'.phase) >= phase_to_u8(table.phase)
        /\ table.phase = "Complete" => table'.phase = "Complete" ]_vars

\* A started hand is Complete and instructions have run since: the community
\* cards differ from those the result recorded.
C19_Witness ==
    /\ table.phase = "Complete"
    /\ table.hand_number \in DOMAIN game_results
    /\ table.hand_number >= 1
    /\ game_results[table.hand_number].community_cards # table.community_cards

\* C20: start_game succeeds only when the table is in Waiting and
\* current_players >= min_players: otherwise it is rejected for every
\* signer, for the creator with GameAlreadyStarted (checked first) or
\* NotEnoughPlayers; and a step that starts a hand begins in Waiting with
\* enough players, raises hand_number by exactly 1 and ends in PreFlop.
C20_StartGame ==
    /\ [](\A signer \in Wallets :
              LET ok == /\ table.phase = "Waiting"
                        /\ table.current_players >= table.min_players
              IN  /\ ~ok => start_game_result(table, signer) # "Ok"
                  /\ start_game_result(table, Creator) =
                         IF ok THEN "Ok"
                         ELSE IF table.phase # "Waiting"
                              THEN "GameAlreadyStarted"
                              ELSE "NotEnoughPlayers")
    /\ [][( \/ table'.hand_number # table.hand_number
            \/ table.phase = "Waiting" /\ table'.phase = "PreFlop" )
          => /\ table.phase = "Waiting"
             /\ table.current_players >= table.min_players
             /\ table'.hand_number = table.hand_number + 1
             /\ table'.phase = "PreFlop"]_vars

\* A hand has been started, and starting again is rejected.
C20_Witness ==
    /\ table.phase = "PreFlop"
    /\ table.hand_number = 1
    /\ table.current_players >= table.min_players
    /\ start_game_result(table, Creator) = "GameAlreadyStarted"

\* The number of seats that are active and not all-in.
CanActCount(ps) == Cardinality({i \in 1..Len(ps) : CanAct(ps[i])})

\* A step that opens a betting round: a hand starts, or the street advances
\* to another betting phase.
OpensRound ==
    /\ table'.phase # table.phase
    /\ table'.phase \in BettingPhases

\* C21: at the start of every betting round (after the hand starts and
\* after each street advance) players_to_act equals the number of seats
\* that are active and not all-in.
C21_PlayersToActAtRoundStart ==
    [][OpensRound => table'.players_to_act = CanActCount(players')]_vars

\* C22: whenever, during a betting phase of a hand, no seat is both active
\* and not all-in, the betting round is closed (players_acted >=
\* players_to_act), so that deal_community_cards still advances the street.
C22_RoundAutoCloses ==
    ( /\ table.phase \in BettingPhases
      /\ Seated # {}
      /\ CanActCount(players) = 0 )
    => /\ is_betting_complete(table)
       /\ deal_community_cards_result(table) = "Ok"

\* C23: when a street advances, at the start of the new round every
\* player's current_bet is 0, table.current_bet is 0 and players_acted is 0,
\* while every total_contributed and the pot are unchanged.
C23_StreetReset ==
    [][( /\ table.phase \in BettingPhases
         /\ table'.phase # table.phase
         /\ table'.phase \in BettingPhases )
       => /\ \A i \in Seated :
                 /\ players'[i].current_bet = 0
                 /\ players'[i].total_contributed = players[i].total_contributed
          /\ table'.current_bet = 0
          /\ table'.players_acted = 0
          /\ table'.pot = table.pot]_vars

\* A hand has been started and its deck-ready callback has not arrived.
DeckRequestOutstanding ==
    /\ table.phase = "PreFlop"
    /\ table.encrypted_deck_hash = 0

\* C24: while the deck request of a started hand is outstanding, no
\* submit_action and no deal_community_cards is accepted: no action is
\* recorded, no Player account changes and the street does not advance.
C24_NoMutationWhileOutstanding ==
    [][DeckRequestOutstanding
       => /\ encrypted_actions' = encrypted_actions
          /\ \A i \in Seated : players'[i] = players[i]
          /\ table'.phase \notin BettingPhases \ {table.phase}]_vars

\* C25: once the deck commitment of a hand is stored, a later on_deck_ready
\* in the same hand is not reapplied: encrypted_deck_hash and
\* arcium_computation_id keep their values, and current_bet changes only by
\* a player's action or a street advance.
C25_DeckReadyNotReapplied ==
    [][( /\ table.hand_number >= 1
         /\ table.encrypted_deck_hash # 0
         /\ table'.hand_number = table.hand_number )
       => /\ table'.encrypted_deck_hash = table.encrypted_deck_hash
          /\ table'.arcium_computation_id = table.arcium_computation_id
          /\ ( /\ encrypted_actions' = encrypted_actions
               /\ table'.phase = table.phase )
             => table'.current_bet = table.current_bet]_vars

\* The pots of the table taken together: main_pot plus side_pots[0 ..
\* side_pot_count).
PotsTotal(t) ==
    t.main_pot + SumSeq([k \in 1..t.side_pot_count |-> t.side_pots[k]])

\* The most a seat that contributed c can win: from every seat, what that
\* seat put in up to the level c.
Claimable(ps, c) ==
    SumSeq([j \in 1..Len(ps) |-> Min(ps[j].total_contributed, c)])

\* C26: at showdown the pot is partitioned exactly: when the result of a
\* started hand with chips in the pot is accepted, main_pot plus the side
\* pots sum to table.pot, and no winner is paid more than the pots its
\* contribution reaches.
C26_PotsPartitionPot ==
    [][( /\ table.hand_number >= 1
         /\ table.pot > 0
         /\ game_results' # game_results )
       => LET g == game_results'[table.hand_number] IN
          /\ PotsTotal(table') = table'.pot
          /\ \A k \in 1..g.winner_count, i \in Seated :
                 players[i].wallet = g.winners[k]
                 => g.payouts[k]
                        <= Claimable(players, players[i].total_contributed)]_vars

\* C27: the number of seated players never exceeds the table's max_players:
\* a seat is taken only in the Waiting phase and only while current_players
\* is below max_players.
C27_SeatsWithinMax ==
    /\ [](table.current_players <= table.max_players)
    /\ [][Len(players') > Len(players)
          => /\ table.phase = "Waiting"
             /\ table.current_players < table.max_players]_vars

\* C28: a player's time_bank_remaining is never negative: a seat's action
\* is accepted only if the time elapsed since last_action_ts is at most
\* TIME_BANK_SECONDS + time_bank_remaining, and the accepted action deducts
\* exactly the overage max(0, elapsed - TIME_BANK_SECONDS) from the bank.
C28_TimeBank ==
    /\ [](\A i \in Seated :
              players[i].time_bank_remaining \in 0..TIME_BANK_SECONDS)
    /\ [][\A i \in Seated :
              ( \/ players'[i] # players[i]
                \/ ActionSeed(table, players[i])
                       \in encrypted_actions' \ encrypted_actions )
              => LET elapsed == now - table.last_action_ts
                     bank == players[i].time_bank_remaining
                 IN  /\ elapsed <= TIME_BANK_SECONDS + bank
                     /\ players'[i].time_bank_remaining =
                            bank - ( IF elapsed > TIME_BANK_SECONDS
                                     THEN elapsed - TIME_BANK_SECONDS
                                     ELSE 0 )
                     /\ table'.last_action_ts = now]_vars

\* In a hand, a seat has acted late and drawn on its time bank.
C28_Witness ==
    /\ table.phase \in BettingPhases
    /\ \E i \in Seated :
           /\ players[i].has_acted
           /\ players[i].time_bank_remaining < TIME_BANK_SECONDS
           /\ ActionSeed(table, players[i]) \in encrypted_actions

=============================================================================
